---- MODULE Spec2Model ----
(***************************************************************************)
(* Model of the SRS Ambiguity Guard: the ResolutionPipeline                *)
(* (src/src/resolution.py) with its Chroma collection, in-memory corpus    *)
(* mirror and BM25 index, and the batch runner process_requirements        *)
(* (src/src/core/processing.py) driven by the Streamlit session state, and  *)
(* the file parsers of src/src/ingestion.py.                               *)
(*                                                                         *)
(* A Python string is modelled as a sequence of items; an item is a word   *)
(* (possibly ending in a sentence terminator) or one whitespace character. *)
(***************************************************************************)
EXTENDS Integers, Sequences, FiniteSets, TLC

VARIABLES
    collection,         \* Chroma collection: sequence of [id, document, metadata]
    documents,          \* self.documents
    metadatas,          \* self.metadatas
    content_to_meta,    \* self.content_to_meta
    bm25,               \* self.bm25
    add,                \* the add_knowledge call in progress (position + arguments)
    pre,                \* the pipeline state when that call started
    nAdds,              \* number of add_knowledge calls made
    res,                \* the resolve_ambiguity call in progress (position + locals)
    nResolves,          \* number of resolve_ambiguity calls made
    processing_stopped, \* st.session_state.processing_stopped
    analysis_results,   \* st.session_state.analysis_results
    run,                \* the process_requirements call (position + locals)
    nRuns,              \* number of process_requirements calls made
    fuse,               \* a retrieve_hybrid fusion on given candidate lists (lines 66-73)
    ingest,             \* a load_initial_knowledge / parse_file call (position + locals)
    chunker             \* a semantic_chunk_pdf call on a given document

pipeVars == <<collection, documents, metadatas, content_to_meta, bm25>>
addVars == <<add, pre, nAdds>>
resVars == <<res, nResolves>>
batchVars == <<processing_stopped, analysis_results, run, nRuns>>
pureVars == <<fuse, ingest, chunker>>
vars == <<collection, documents, metadatas, content_to_meta, bm25, add, pre, nAdds,
          res, nResolves, processing_stopped, analysis_results, run, nRuns, fuse, ingest,
          chunker>>

\* ------------------------------------------------------------ bounds
MaxAdds == 2
MaxResolves == 2
MaxSentences == 2
MaxRuns == 2
MaxList == 3
MaxFiles == 2
MaxPages == 2

\* ------------------------------------------------------------ strings
None == <<"<None>">>
NoException == "<no exception>"

IsSpace(item) == item = " "

\* the characters [.?!] of the regex in split_sentences
EndsWithTerminator(item) == item \in {"fast.", "ok?", "Done!"}

\* str.lower() on one item
LowerItem(item) ==
    CASE item = "Login" -> "login"
      [] item = "Done!" -> "done!"
      [] item = "User" -> "user"
      [] OTHER -> item

RECURSIVE SelectSeqNonSpace(_)
SelectSeqNonSpace(s) ==
    IF s = <<>> THEN <<>>
    ELSE IF IsSpace(Head(s)) THEN SelectSeqNonSpace(Tail(s))
    ELSE <<Head(s)>> \o SelectSeqNonSpace(Tail(s))

\* doc.lower().split()
Tokenize(s) == [i \in 1..Len(SelectSeqNonSpace(s)) |-> LowerItem(SelectSeqNonSpace(s)[i])]

RECURSIVE LStrip(_)
LStrip(s) == IF s # <<>> /\ IsSpace(Head(s)) THEN LStrip(Tail(s)) ELSE s

RECURSIVE RStrip(_)
RStrip(s) == IF s # <<>> /\ IsSpace(s[Len(s)]) THEN RStrip(SubSeq(s, 1, Len(s) - 1)) ELSE s

Strip(s) == RStrip(LStrip(s))

\* re.split(r'(?<=[.?!])\s+', text): the pieces between the whitespace runs
\* that directly follow a terminator. cur is the piece being collected,
\* prev the item before position i.
RECURSIVE ReSplit(_, _, _, _)
ReSplit(text, i, cur, prev) ==
    IF i > Len(text) THEN <<cur>>
    ELSE IF IsSpace(text[i]) /\ EndsWithTerminator(prev)
         THEN LET rest == LStrip(SubSeq(text, i, Len(text)))
              IN <<cur>> \o ReSplit(rest, 1, <<>>, " ")
         ELSE ReSplit(text, i + 1, Append(cur, text[i]), text[i])

RECURSIVE StripAndDropEmpty(_)
StripAndDropEmpty(pieces) ==
    IF pieces = <<>> THEN <<>>
    ELSE IF Strip(Head(pieces)) = <<>> THEN StripAndDropEmpty(Tail(pieces))
    ELSE <<Strip(Head(pieces))>> \o StripAndDropEmpty(Tail(pieces))

split_sentences(text) == StripAndDropEmpty(ReSplit(text, 1, <<>>, " "))

\* ------------------------------------------------------------ sequences
IsPrefix(s, t) == Len(s) <= Len(t) /\ SubSeq(t, 1, Len(s)) = s

Range(s) == {s[i] : i \in 1..Len(s)}

Take(s, n) == SubSeq(s, 1, IF Len(s) < n THEN Len(s) ELSE n)

\* mutant: equal keys come out in reverse order
SortedPosition_Unstable(s, key, i) ==
    1 + Cardinality({j \in 1..Len(s) : key[s[j]] > key[s[i]]})
      + Cardinality({j \in (i + 1)..Len(s) : key[s[j]] = key[s[i]]})

\* sorted(s, key=lambda x: key[x], reverse=True) for a list s without
\* repeated elements. Python's sort is stable, also with reverse=True: the
\* element at position i comes after every element with a greater key and
\* after the earlier elements with an equal key.
SortedPosition(s, key, i) ==
    1 + Cardinality({j \in 1..Len(s) : key[s[j]] > key[s[i]]})
      + Cardinality({j \in 1..(i - 1) : key[s[j]] = key[s[i]]})

SortedBy(s, key) ==
    [p \in 1..Len(s) |-> s[CHOOSE i \in 1..Len(s) : SortedPosition(s, key, i) = p]]

\* (the list and the keys are evaluated once, then sorted)
SortedDesc(s, key) == CHOOSE r \in {SortedBy(sv, kv) : sv \in {s}, kv \in {key}} : TRUE

\* ------------------------------------------------------------ corpus data
\* documents as parse_file renders them (src/src/ingestion.py)
DocUserLogin == <<"User", " ", "Login">>
DocLoginFast == <<"Login", " ", "fast.">>
DocBlank == <<>>

Meta(source, item) == [source |-> source, item |-> item]

\* {} : what content_to_meta.get(doc, {}) gives for a text with no entry
EmptyMeta == [source |-> "<no key>", item |-> -1]

\* the (documents, ids, metadatas) triples the callers of add_knowledge pass:
\* parse_file outputs of a two-record file, of a second file holding the same
\* text as a record of the first, and of a file whose only record is the
\* empty string
FileRules ==
    [documents |-> <<DocUserLogin, DocLoginFast>>,
     ids |-> <<"rules.json_item_0", "rules.json_item_1">>,
     metadatas |-> <<Meta("rules.json", 0), Meta("rules.json", 1)>>]
FileCopy ==
    [documents |-> <<DocUserLogin>>,
     ids |-> <<"copy.json_item_0">>,
     metadatas |-> <<Meta("copy.json", 0)>>]
FileBlank ==
    [documents |-> <<DocBlank>>,
     ids |-> <<"blank.json_item_0">>,
     metadatas |-> <<Meta("blank.json", 0)>>]
FileEmpty == [documents |-> <<>>, ids |-> <<>>, metadatas |-> <<>>]

AddInputs == {FileRules, FileCopy, FileBlank, FileEmpty}

\* ------------------------------------------------------------ ResolutionPipeline
NoIndex == [built |-> FALSE, corpus |-> <<>>]

\* BM25Okapi(tokenized_corpus) divides by the number of distinct tokens of
\* the corpus (average idf): it raises ZeroDivisionError when no document
\* has a token
BM25Raises(tokenized_corpus) == \A i \in 1..Len(tokenized_corpus) : tokenized_corpus[i] = <<>>

BM25Okapi(tokenized_corpus) == [built |-> TRUE, corpus |-> tokenized_corpus]

TokenizedCorpus(docs) == [i \in 1..Len(docs) |-> Tokenize(docs[i])]

CollectionIds(coll) == {coll[i].id : i \in 1..Len(coll)}

\* collection.add(embeddings, documents, ids, metadatas) of a persistent
\* Chroma collection: a record whose id is already stored is not added
\* again (add is not upsert); the others are appended
RECURSIVE CollectionAdd(_, _, _, _)
CollectionAdd(coll, docs, ids, metas) ==
    IF docs = <<>> THEN coll
    ELSE LET rec == [id |-> Head(ids), document |-> Head(docs), metadata |-> Head(metas)]
             next == IF rec.id \in CollectionIds(coll) THEN coll ELSE Append(coll, rec)
         IN CollectionAdd(next, Tail(docs), Tail(ids), Tail(metas))

\* collection.get(): the stored documents and metadatas
CollectionDocuments(coll) == [i \in 1..Len(coll) |-> coll[i].document]
CollectionMetadatas(coll) == [i \in 1..Len(coll) |-> coll[i].metadata]

\* {doc: meta for doc, meta in zip(docs, metas)}: a later pair replaces an
\* earlier one with the same text
ZipDict(docs, metas) ==
    [d \in Range(docs) |->
        metas[CHOOSE i \in 1..Len(docs) : docs[i] = d /\ \A j \in (i + 1)..Len(docs) : docs[j] # d]]

\* mutant: an entry that exists is kept (setdefault instead of update)
DictUpdate_KeepsOld(old, new) ==
    [d \in (DOMAIN old) \cup (DOMAIN new) |-> IF d \in DOMAIN old THEN old[d] ELSE new[d]]

\* dict.update
DictUpdate(old, new) ==
    [d \in (DOMAIN old) \cup (DOMAIN new) |-> IF d \in DOMAIN new THEN new[d] ELSE old[d]]

\* mutant: the mirror list is replaced instead of extended
Extend_Replaces(list, items) == items

\* self.documents.extend(documents)
Extend(list, items) == list \o items

AddIdle == [pc |-> "idle", documents |-> <<>>, ids |-> <<>>, metadatas |-> <<>>,
            outcome |-> "none"]

AddReturn(outcome) == [AddIdle EXCEPT !.outcome = outcome]

Snapshot == <<collection, documents, metadatas, content_to_meta, bm25>>

\* add_knowledge(documents, ids, metadatas): the call and its guard
add_knowledge(f) ==
    /\ add.pc = "idle"
    /\ nAdds < MaxAdds
    /\ nAdds' = nAdds + 1
    /\ pre' = Snapshot
    /\ add' = IF f.documents = <<>> THEN AddReturn("returned")
              ELSE [pc |-> "embed", documents |-> f.documents, ids |-> f.ids,
                    metadatas |-> f.metadatas, outcome |-> "none"]
    /\ UNCHANGED <<pureVars, pipeVars, resVars, batchVars>>

\* embeddings = self.embed_model.encode(documents).tolist()
add_embed ==
    /\ add.pc = "embed"
    /\ \E raises \in BOOLEAN :
          add' = IF raises THEN AddReturn("raised") ELSE [add EXCEPT !.pc = "persist"]
    /\ UNCHANGED <<pureVars, pipeVars, pre, nAdds, resVars, batchVars>>

\* self.collection.add(...)
add_persist ==
    /\ add.pc = "persist"
    /\ \E raises \in BOOLEAN :
          IF raises
          THEN /\ add' = AddReturn("raised")
               /\ UNCHANGED collection
          ELSE /\ add' = [add EXCEPT !.pc = "extend"]
               /\ collection' = CollectionAdd(collection, add.documents, add.ids, add.metadatas)
    /\ UNCHANGED <<pureVars, documents, metadatas, content_to_meta, bm25, pre, nAdds, resVars, batchVars>>

\* self.documents.extend(documents); self.metadatas.extend(metadatas)
add_extend ==
    /\ add.pc = "extend"
    /\ documents' = Extend(documents, add.documents)
    /\ metadatas' = Extend(metadatas, add.metadatas)
    /\ add' = [add EXCEPT !.pc = "lookup"]
    /\ UNCHANGED <<pureVars, collection, content_to_meta, bm25, pre, nAdds, resVars, batchVars>>

\* self.content_to_meta.update({...})
add_lookup ==
    /\ add.pc = "lookup"
    /\ content_to_meta' = DictUpdate(content_to_meta, ZipDict(add.documents, add.metadatas))
    /\ add' = [add EXCEPT !.pc = "rebuild"]
    /\ UNCHANGED <<pureVars, collection, documents, metadatas, bm25, pre, nAdds, resVars, batchVars>>

\* tokenized_corpus = [...]; self.bm25 = BM25Okapi(tokenized_corpus)
add_rebuild ==
    /\ add.pc = "rebuild"
    /\ LET tokenized_corpus == TokenizedCorpus(documents)
       IN IF BM25Raises(tokenized_corpus)
          THEN /\ add' = AddReturn("raised")
               /\ UNCHANGED bm25
          ELSE /\ add' = AddReturn("returned")
               /\ bm25' = BM25Okapi(tokenized_corpus)
    /\ UNCHANGED <<pureVars, collection, documents, metadatas, content_to_meta, pre, nAdds, resVars, batchVars>>

\* ------------------------------------------------------------ retrieval
TopK == 10
TopN == 5
RRFOffset == 60

\* 1 / (rank + 60) is kept exact as RRFScale / (rank + 60), RRFScale being
\* the least common multiple of 60..65 (ranks 0..5)
RRFScale == 64 * 9 * 5 * 7 * 13 * 31 * 61

Reverse(s) == [i \in 1..Len(s) |-> s[Len(s) + 1 - i]]

Overlap(query, doc) == Cardinality(Range(Tokenize(query)) \cap Range(Tokenize(doc)))

\* stand-in for the embedding distance of all-MiniLM-L6-v2 (higher = nearer)
DenseScore(query, doc) == 2 * Overlap(query, doc) - Len(Tokenize(doc))

\* stand-in for the BM25 score of a document for the query tokens
LexicalScore(tokenized_query, tokens) == Cardinality(Range(tokenized_query) \cap Range(tokens))

\* collection.query(query_embeddings, n_results)['documents'][0]
CollectionQuery(coll, query, n) ==
    LET idx == [i \in 1..Len(coll) |-> i]
        key == [i \in 1..Len(coll) |-> DenseScore(query, coll[i].document)]
        ranked == Take(SortedDesc(idx, key), n)
    IN [i \in 1..Len(ranked) |-> coll[ranked[i]].document]

\* BM25Okapi.get_top_n(tokenized_query, documents, n): the documents at the
\* positions argsort(scores)[::-1][:n] (equal scores: later position first)
GetTopN(index, tokenized_query, docs, n) ==
    LET idx == Reverse([i \in 1..Len(docs) |-> i])
        key == [i \in 1..Len(docs) |-> LexicalScore(tokenized_query, index.corpus[i])]
        ranked == Take(SortedDesc(idx, key), n)
    IN [i \in 1..Len(ranked) |-> docs[ranked[i]]]

\* the keys of the scores dict, in insertion order
RECURSIVE FirstSeen(_, _)
FirstSeen(s, seen) ==
    IF s = <<>> THEN <<>>
    ELSE IF Head(s) \in seen THEN FirstSeen(Tail(s), seen)
    ELSE <<Head(s)>> \o FirstSeen(Tail(s), seen \cup {Head(s)})

\* sum over the positions of doc in list of 1 / (rank + 60), rank 0-based
RECURSIVE RankSum(_, _, _)
RankSum(list, doc, i) ==
    IF i > Len(list) THEN 0
    ELSE (IF list[i] = doc THEN RRFScale \div ((i - 1) + RRFOffset) ELSE 0) + RankSum(list, doc, i + 1)

\* scores[doc] = scores.get(doc, 0) + 1 / (rank + 60) over both lists
RRFScores(vector_docs, bm25_docs) ==
    [d \in Range(vector_docs) \cup Range(bm25_docs) |->
        RankSum(vector_docs, d, 1) + RankSum(bm25_docs, d, 1)]

\* sorted(scores.keys(), key=lambda x: scores[x], reverse=True)[:top_k]
Fuse(vector_docs, bm25_docs, top_k) ==
    Take(SortedDesc(FirstSeen(vector_docs \o bm25_docs, {}), RRFScores(vector_docs, bm25_docs)), top_k)

\* the RRF fusion of retrieve_hybrid (the two lists are evaluated once)
RRF(vector_docs, bm25_docs, top_k) ==
    CHOOSE r \in {Fuse(v, b, top_k) : v \in {vector_docs}, b \in {bm25_docs}} : TRUE

\* the fusion of lines 66-73 on two given candidate lists. A text stored
\* under several ids is returned once per id by collection.query and by
\* get_top_n, so a list can hold a text more than once.
FuseDocs == {"A", "B", "C", "D"}

ListsUpTo(n) == UNION {[1..k -> FuseDocs] : k \in 0..n}

FuseIdle == [pc |-> "idle", vector_docs |-> <<>>, bm25_docs |-> <<>>, top_k |-> 0,
             scores |-> <<>>, result |-> <<>>]

FuseGiven(vector_docs, bm25_docs, top_k) ==
    [FuseIdle EXCEPT !.pc = "given", !.vector_docs = vector_docs, !.bm25_docs = bm25_docs,
                     !.top_k = top_k]

rrf_fusion ==
    /\ fuse.pc = "given"
    /\ fuse' = [fuse EXCEPT !.pc = "fused",
                            !.scores = RRFScores(fuse.vector_docs, fuse.bm25_docs),
                            !.result = RRF(fuse.vector_docs, fuse.bm25_docs, fuse.top_k)]
    /\ UNCHANGED <<pipeVars, addVars, resVars, batchVars, ingest, chunker>>

\* ------------------------------------------------------------ resolve_ambiguity
NoContext == <<"No relevant context found.">>
GeneratedText == <<"The login shall respond within 2 seconds.">>

\* what the generation backend did in this call: nothing yet, a response, or
\* the description of its failure
NotCalled == "not called"
BackendFailures == {"quota exceeded", "deadline exceeded"}

NoCalls == [embed |-> 0, query |-> 0, bm25 |-> 0, rerank |-> 0, generate |-> 0]
\* what a retrieval has read of the shared pipeline: list lengths, and where
\* an add_knowledge call stood when the keyword search ran
NothingSeen == [docsAtCheck |-> -1, storeAtQuery |-> -1, indexAtKeyword |-> -1,
                docsAtKeyword |-> -1, addAtKeyword |-> "idle"]

ResIdle == [pc |-> "idle", text |-> <<>>, vector_docs |-> <<>>, candidates |-> <<>>,
            best_docs |-> <<>>, evidence |-> <<>>, rewrite |-> None, error |-> NoException,
            backend |-> NotCalled, calls |-> NoCalls, seen |-> NothingSeen]

\* return rewrite, evidence
ResReturn(r, rewrite, evidence) ==
    [r EXCEPT !.pc = "returned", !.rewrite = rewrite, !.evidence = evidence]

\* an exception leaves resolve_ambiguity
ResRaise(r, error) == [r EXCEPT !.pc = "raised", !.error = error]

\* the reranker's scores (opaque): one of two cross-encoders, preferring
\* short or long documents
RerankScore(model, text, doc) ==
    IF model = "short" THEN 0 - Len(doc) ELSE Len(doc) + Overlap(text, doc)

RerankModels == {"short", "long"}

\* sorted(zip(scores, candidates), key=lambda x: x[0], reverse=True)[:5]
Rerank(model, text, candidates) ==
    LET key == [d \in Range(candidates) |-> RerankScore(model, text, d)]
    IN Take(SortedDesc(candidates, key), TopN)

\* [self.content_to_meta.get(doc, {}) for doc in best_docs]
EvidenceOf(lookup, best_docs) ==
    [i \in 1..Len(best_docs) |->
        IF best_docs[i] \in DOMAIN lookup THEN lookup[best_docs[i]] ELSE EmptyMeta]

\* mutant: no early return, the pipeline goes on with no candidates
EmptyCorpusResult_GoesOn(r) == [r EXCEPT !.pc = "rerank"]

\* retrieve_hybrid: if not self.documents: return []
\* resolve_ambiguity: if not candidates: return "No relevant context found.", []
EmptyCorpusResult(r) == ResReturn(r, NoContext, <<>>)

\* mutant: retrieve_hybrid without its empty-corpus guard
res_check_NoGuard ==
    /\ res.pc = "check"
    /\ res' = [res EXCEPT !.seen.docsAtCheck = Len(documents), !.pc = "vector"]
    /\ UNCHANGED <<pureVars, pipeVars, addVars, nResolves, batchVars>>


res_check ==
    /\ res.pc = "check"
    /\ LET r == [res EXCEPT !.seen.docsAtCheck = Len(documents)]
       IN res' = IF documents = <<>> THEN EmptyCorpusResult(r) ELSE [r EXCEPT !.pc = "vector"]
    /\ UNCHANGED <<pureVars, pipeVars, addVars, nResolves, batchVars>>

\* query_vec = self.embed_model.encode([query]); chroma_res = self.collection.query(...)
res_vector ==
    /\ res.pc = "vector"
    /\ \E outcome \in {"ok", "embed raises", "query raises"} :
          res' = CASE outcome = "embed raises" ->
                        ResRaise([res EXCEPT !.calls.embed = @ + 1], "embedding failed")
                   [] outcome = "query raises" ->
                        ResRaise([res EXCEPT !.calls.embed = @ + 1, !.calls.query = @ + 1],
                                 "vector search failed")
                   [] OTHER ->
                        [res EXCEPT !.pc = "keyword",
                                    !.calls.embed = @ + 1, !.calls.query = @ + 1,
                                    !.seen.storeAtQuery = Len(collection),
                                    !.vector_docs = CollectionQuery(collection, res.text, TopK)]
    /\ UNCHANGED <<pureVars, pipeVars, addVars, nResolves, batchVars>>

\* bm25_docs = self.bm25.get_top_n(tokenized_query, self.documents, n=top_k),
\* the fusion, and the candidates check of resolve_ambiguity
KeywordStep(r, index, docs) ==
    LET s == [r EXCEPT !.seen.indexAtKeyword = Len(index.corpus), !.seen.docsAtKeyword = Len(docs),
                       !.seen.addAtKeyword = add.pc]
    IN IF ~index.built
       THEN ResRaise(s, "'NoneType' object has no attribute 'get_top_n'")
       ELSE IF Len(index.corpus) # Len(docs)
       THEN ResRaise([s EXCEPT !.calls.bm25 = @ + 1],
                     "The documents given don't match the index corpus!")
       ELSE LET bm25_docs == GetTopN(index, Tokenize(r.text), docs, TopK)
                candidates == RRF(r.vector_docs, bm25_docs, TopK)
                t == [s EXCEPT !.calls.bm25 = @ + 1, !.candidates = candidates]
            IN IF candidates = <<>> THEN EmptyCorpusResult(t) ELSE [t EXCEPT !.pc = "rerank"]

res_keyword ==
    /\ res.pc = "keyword"
    /\ res' = KeywordStep(res, bm25, documents)
    /\ UNCHANGED <<pureVars, pipeVars, addVars, nResolves, batchVars>>

\* scores = self.reranker.predict(pairs); ranked; best_docs; evidence
res_rerank ==
    /\ res.pc = "rerank"
    /\ \/ res' = ResRaise([res EXCEPT !.calls.rerank = @ + 1], "reranker failed")
       \/ \E model \in RerankModels :
             LET best_docs == Rerank(model, res.text, res.candidates)
             IN res' = [res EXCEPT !.pc = "generate", !.calls.rerank = @ + 1,
                                   !.best_docs = best_docs,
                                   !.evidence = EvidenceOf(content_to_meta, best_docs)]
    /\ UNCHANGED <<pureVars, pipeVars, addVars, nResolves, batchVars>>

\* mutant: a failed generation call is made a second time
GenerateStep_Retries(r, failure) ==
    IF failure # NoException
    THEN ResReturn([r EXCEPT !.calls.generate = @ + 2, !.backend = "response"],
                   GeneratedText, r.evidence)
    ELSE ResReturn([r EXCEPT !.calls.generate = @ + 1, !.backend = "response"],
                   GeneratedText, r.evidence)

\* mutant: no try/except around the generation call
GenerateStep_Raises(r, failure) ==
    LET s == [r EXCEPT !.calls.generate = @ + 1,
                       !.backend = IF failure = NoException THEN "response" ELSE failure]
    IN IF failure # NoException THEN ResRaise(s, failure)
       ELSE ResReturn(s, GeneratedText, r.evidence)

\* try: response = self.model.generate_content(prompt); return response.text, evidence
\* except Exception as e: return f"API Error: {e}", []
\* (failure: NoException, or the description of the backend's exception)
GenerateStep(r, failure) ==
    LET s == [r EXCEPT !.calls.generate = @ + 1,
                       !.backend = IF failure = NoException THEN "response" ELSE failure]
    IN IF failure # NoException THEN ResReturn(s, <<"API Error: ", failure>>, <<>>)
       ELSE ResReturn(s, GeneratedText, r.evidence)

res_generate ==
    /\ res.pc = "generate"
    /\ \E failure \in {NoException} \cup BackendFailures : res' = GenerateStep(res, failure)
    /\ UNCHANGED <<pureVars, pipeVars, addVars, nResolves, batchVars>>

\* resolve_ambiguity(text, include_explanation): the call
CallResolve(text) == [ResIdle EXCEPT !.pc = "check", !.text = text]

\* ------------------------------------------------------------ process_requirements
MaxEvidenceItems == 5

Absent == "<no key>"

\* the confidence the detector reports, in percent (the softmax probability
\* of the predicted class; the Error result carries 0.0 instead)
Scores == {97}

ClearLabels == {"Clear", "Clean", "LABEL_0"}

\* an empty text, a blank one, and for each n up to MaxSentences the text of
\* n sentences "Done! Login fast. Done! ..."
SentenceUnit(i) == IF i % 2 = 1 THEN <<"Done!">> ELSE <<"Login", " ", "fast.">>

RECURSIVE TextOf(_)
TextOf(n) == IF n = 1 THEN SentenceUnit(1) ELSE TextOf(n - 1) \o <<" ">> \o SentenceUnit(n)

TextInputs == {<<>>, <<" ">>} \cup {TextOf(n) : n \in 1..MaxSentences}

\* (prior: how many results the session held when the call was made; stale:
\* whether the stop flag was set then, kept until the run's first call of the
\* detector; predicts: how often detector.predict was called in this run)
RunIdle == [pc |-> "idle", resolver |-> FALSE, sentences |-> <<>>, idx |-> 0,
            label |-> Absent, score |-> 0, exit |-> "none",
            ret |-> [success |-> FALSE, message |-> Absent, count |-> 0],
            log |-> <<>>, prior |-> 0, stale |-> FALSE, predicts |-> 0]

\* one entry of run.log: what the detector and the resolver did for an item
\* (candidates: how many candidates the resolver's retrieval gave, -1 when
\* the resolver was not called)
\* (backend, generates: what the generation backend did for the item and how
\* often it was called)
LogEntry(predicted, score, resolved, error, candidates, backend, generates) ==
    [predicted |-> predicted, score |-> score, resolved |-> resolved, error |-> error,
     candidates |-> candidates, backend |-> backend, generates |-> generates]

\* the result dict of lines 54-66
Result(sentence, label, score) ==
    [sentence |-> sentence, label |-> label, score |-> score, rewrite |-> None,
     evidence |-> <<>>, status |-> IF label \in ClearLabels THEN "clear" ELSE "ambiguous",
     error |-> Absent]

\* the result dict of lines 88-95
ErrorResult(sentence, error) ==
    [sentence |-> sentence, label |-> "Error", score |-> 0, rewrite |-> None,
     evidence |-> <<>>, status |-> Absent, error |-> error]

\* mutant: the evidence the resolver returned is dropped
ResolvedResult_NoEvidence(result, rewrite, evidence) == [result EXCEPT !.rewrite = rewrite]

\* lines 75-78: the resolver returned
ResolvedResult(result, rewrite, evidence) ==
    [result EXCEPT !.rewrite = rewrite, !.evidence = Take(evidence, MaxEvidenceItems)]

\* mutant: a failed resolution is recorded like a failed classification
ResolutionFailed_AsError(result, error) == ErrorResult(result.sentence, error)

\* lines 79-81: the resolver raised
ResolutionFailed(result, error) == [result EXCEPT !.rewrite = <<"Error: ", error>>]

\* return True, "Analysis complete! Processed {len(results)} requirements ..."
Finish(r, exit, results) ==
    [r EXCEPT !.pc = "done", !.exit = exit,
              !.ret = [success |-> TRUE, message |-> "Analysis complete!", count |-> Len(results)]]

\* return False, <warning>
Reject(r, message) ==
    [r EXCEPT !.pc = "done", !.exit = "rejected",
              !.ret = [success |-> FALSE, message |-> message, count |-> 0]]

\* mutant: the loop variable moves on by two
NextItem_SkipsOne(r, entry) == [r EXCEPT !.pc = "loop", !.idx = @ + 2, !.log = Append(@, entry)]

\* the next turn of the for loop
NextItem(r, entry) == [r EXCEPT !.pc = "loop", !.idx = @ + 1, !.log = Append(@, entry)]

\* mutant: the stop flag is left as the caller finds it
process_requirements_NoFlagReset(resolver, text_input) ==
    /\ run.pc \in {"idle", "done"}
    /\ nRuns < MaxRuns
    /\ nRuns' = nRuns + 1
    /\ IF text_input = <<>>
       THEN /\ run' = Reject([RunIdle EXCEPT !.resolver = resolver, !.prior = Len(analysis_results),
                                      !.stale = processing_stopped],
                             "Please enter text or upload a document.")
            /\ UNCHANGED <<processing_stopped, analysis_results>>
       ELSE /\ UNCHANGED processing_stopped
            /\ analysis_results' = <<>>
            /\ LET sentences == split_sentences(text_input)
                   r == [RunIdle EXCEPT !.resolver = resolver, !.sentences = sentences,
                                        !.prior = Len(analysis_results),
                                        !.stale = processing_stopped]
               IN run' = IF Len(sentences) = 0
                         THEN Reject(r, "No sentences detected.")
                         ELSE [r EXCEPT !.pc = "loop", !.idx = 1]
    /\ UNCHANGED <<pureVars, pipeVars, addVars, resVars>>

\* mutant: the result list is not reset at the start of a run
process_requirements_NoReset(resolver, text_input) ==
    /\ run.pc \in {"idle", "done"}
    /\ nRuns < MaxRuns
    /\ nRuns' = nRuns + 1
    /\ IF text_input = <<>>
       THEN /\ run' = Reject([RunIdle EXCEPT !.resolver = resolver, !.prior = Len(analysis_results)],
                             "Please enter text or upload a document.")
            /\ UNCHANGED <<processing_stopped, analysis_results>>
       ELSE /\ processing_stopped' = FALSE
            /\ UNCHANGED analysis_results
            /\ LET sentences == split_sentences(text_input)
                   r == [RunIdle EXCEPT !.resolver = resolver, !.sentences = sentences,
                                        !.prior = Len(analysis_results)]
               IN run' = IF Len(sentences) = 0
                         THEN Reject(r, "No sentences detected.")
                         ELSE [r EXCEPT !.pc = "loop", !.idx = 1]
    /\ UNCHANGED <<pureVars, pipeVars, addVars, resVars>>

\* lines 20-36: the call, up to the loop
process_requirements(resolver, text_input) ==
    /\ run.pc \in {"idle", "done"}
    /\ nRuns < MaxRuns
    /\ nRuns' = nRuns + 1
    /\ IF text_input = <<>>
       THEN /\ run' = Reject([RunIdle EXCEPT !.resolver = resolver, !.prior = Len(analysis_results),
                                      !.stale = processing_stopped],
                             "Please enter text or upload a document.")
            /\ UNCHANGED <<processing_stopped, analysis_results>>
       ELSE /\ processing_stopped' = FALSE
            /\ analysis_results' = <<>>
            /\ LET sentences == split_sentences(text_input)
                   r == [RunIdle EXCEPT !.resolver = resolver, !.sentences = sentences,
                                        !.prior = Len(analysis_results),
                                        !.stale = processing_stopped]
               IN run' = IF Len(sentences) = 0
                         THEN Reject(r, "No sentences detected.")
                         ELSE [r EXCEPT !.pc = "loop", !.idx = 1]
    /\ UNCHANGED <<pureVars, pipeVars, addVars, resVars>>

\* mutant: the loop never looks at the stop flag
LoopStep_IgnoresStop(r, stopped, results) ==
    IF r.idx > Len(r.sentences) THEN Finish(r, "exhausted", results)
    ELSE [r EXCEPT !.pc = "predict"]

\* lines 39-43 and 98-103: the for statement, the stop check, the return
LoopStep(r, stopped, results) ==
    IF r.idx > Len(r.sentences) THEN Finish(r, "exhausted", results)
    ELSE IF stopped THEN Finish(r, "break", results)
    ELSE [r EXCEPT !.pc = "predict"]

loop_check ==
    /\ run.pc = "loop"
    /\ run' = LoopStep(run, processing_stopped, analysis_results)
    /\ UNCHANGED <<pureVars, pipeVars, addVars, resVars, processing_stopped, analysis_results, nRuns>>

\* mutant: the detector's exception is logged but no result is recorded
PredictRaised_NoResult(r, results, error) ==
    [run |-> NextItem(r, LogEntry("raise", 0, "not called", error, -1, NotCalled, 0)), results |-> results]

\* lines 85-96: the detector raised
PredictRaised(r, results, error) ==
    [run |-> NextItem(r, LogEntry("raise", 0, "not called", error, -1, NotCalled, 0)),
     results |-> Append(results, ErrorResult(r.sentences[r.idx], error))]

\* lines 50-66 and 83: label, score = detector.predict(sentence), the branch
predict ==
    /\ run.pc = "predict"
    /\ \/ LET out == PredictRaised([run EXCEPT !.predicts = @ + 1, !.stale = FALSE], analysis_results,
                                   "CUDA out of memory")
          IN /\ run' = out.run
             /\ analysis_results' = out.results
             /\ UNCHANGED res
       \/ \E label \in {"Clear", "Ambiguous"}, score \in Scores :
             LET result == Result(run.sentences[run.idx], label, score)
                 called == [run EXCEPT !.predicts = @ + 1, !.stale = FALSE]
             IN IF result.status = "clear" \/ ~run.resolver
                THEN /\ run' = NextItem(called, LogEntry(label, score, "not called", NoException,
                                                        -1, NotCalled, 0))
                     /\ analysis_results' = Append(analysis_results, result)
                     /\ UNCHANGED res
                ELSE /\ run' = [called EXCEPT !.pc = "resolve", !.label = label, !.score = score]
                     /\ res' = CallResolve(run.sentences[run.idx])
                     /\ UNCHANGED analysis_results
    /\ UNCHANGED <<pureVars, pipeVars, addVars, nResolves, processing_stopped, nRuns>>

\* mutant: no inner try/except, the resolver's exception leaves the function
RecordStep_Propagates(r, c, results) ==
    IF c.pc = "raised"
    THEN [run |-> [r EXCEPT !.pc = "done", !.exit = "aborted"], results |-> results]
    ELSE [run |-> NextItem([r EXCEPT !.label = Absent, !.score = 0],
                           LogEntry(r.label, r.score, c.pc, c.error, Len(c.candidates), c.backend,
                                    c.calls.generate)),
          results |-> Append(results, ResolvedResult(Result(r.sentences[r.idx], r.label, r.score),
                                                     c.rewrite, c.evidence))]

\* mutant: a stop request seen when the resolver comes back ends the run
\* and the item's result is dropped
RecordStep_Interrupted(r, c, results) ==
    IF processing_stopped
    THEN [run |-> Finish(r, "break", results), results |-> results]
    ELSE [run |-> NextItem([r EXCEPT !.label = Absent, !.score = 0],
                           LogEntry(r.label, r.score, c.pc, c.error, Len(c.candidates), c.backend,
                                    c.calls.generate)),
          results |-> Append(results,
                             IF c.pc = "raised"
                             THEN ResolutionFailed(Result(r.sentences[r.idx], r.label, r.score), c.error)
                             ELSE ResolvedResult(Result(r.sentences[r.idx], r.label, r.score),
                                                 c.rewrite, c.evidence))]

\* lines 71-83: the resolver's outcome goes into the result; the result is appended
RecordStep(r, c, results) ==
    LET result == Result(r.sentences[r.idx], r.label, r.score)
        done == IF c.pc = "raised" THEN ResolutionFailed(result, c.error)
                ELSE ResolvedResult(result, c.rewrite, c.evidence)
    IN [run |-> NextItem([r EXCEPT !.label = Absent, !.score = 0],
                         LogEntry(r.label, r.score, c.pc, c.error, Len(c.candidates), c.backend,
                                    c.calls.generate)),
        results |-> Append(results, done)]

record ==
    /\ run.pc = "resolve"
    /\ res.pc \in {"returned", "raised"}
    /\ LET out == RecordStep(run, res, analysis_results)
       IN /\ run' = out.run
          /\ analysis_results' = out.results
    /\ res' = ResIdle
    /\ UNCHANGED <<pureVars, pipeVars, addVars, nResolves, processing_stopped, nRuns>>

\* render_action_buttons: the Stop Processing button
stop_request ==
    /\ processing_stopped' = TRUE
    /\ UNCHANGED <<pureVars, pipeVars, addVars, resVars, analysis_results, run, nRuns>>

\* a resolve_ambiguity call of a batch run of another session, on the
\* pipeline that load_models shares between sessions (st.cache_resource)
resolve_ambiguity(text) ==
    /\ res.pc \in {"idle", "returned", "raised"}
    /\ nResolves < MaxResolves
    /\ nResolves' = nResolves + 1
    /\ res' = CallResolve(text)
    /\ UNCHANGED <<pureVars, pipeVars, addVars, batchVars>>

\* ------------------------------------------------------------ ingestion
\* (src/src/ingestion.py) A PDF text is a sequence of paragraphs, each with
\* its length in characters; paragraphs are separated by "\n\n".
MinPageChars == 200
MinPageLines == 5
TocPageChars == 500
MinChunkSize == 200
MaxChunkSize == 1000

Para(text, len) == [text |-> text, len |-> len]

RECURSIVE SumLen(_)
SumLen(paras) == IF paras = <<>> THEN 0 ELSE Head(paras).len + SumLen(Tail(paras))

\* len("\n\n".join(paras))
JoinedLen(paras) == IF paras = <<>> THEN 0 ELSE SumLen(paras) + 2 * (Len(paras) - 1)

\* a page: its paragraphs, the number of its non-empty lines, whether a
\* table-of-contents word stands in its first 200 characters and a
\* references word in its first 300
Page(paras, lines, toc, ref) == [paras |-> paras, lines |-> lines, toc |-> toc, ref |-> ref]

is_low_information_page(page) ==
    \/ JoinedLen(page.paras) < MinPageChars
    \/ page.lines < MinPageLines
    \/ (page.toc /\ JoinedLen(page.paras) < TocPageChars)
    \/ page.ref

ChunkerStart == [chunks |-> <<>>, pages_used |-> <<>>, current_chunk |-> <<>>, current_pages |-> <<>>]

\* lines 54-69: one paragraph of page number page_no
AddParagraph(st, para, page_no) ==
    LET flush == st.current_chunk # <<>> /\ JoinedLen(st.current_chunk) + para.len > MaxChunkSize
        kept == IF JoinedLen(st.current_chunk) >= MinChunkSize
                THEN Append(st.chunks, [text |-> st.current_chunk, pages |-> st.current_pages])
                ELSE st.chunks
        s == IF flush
             THEN [st EXCEPT !.chunks = kept, !.current_chunk = <<>>, !.current_pages = <<>>]
             ELSE st
    IN [s EXCEPT !.current_chunk = Append(@, para),
                 !.current_pages = IF page_no \in Range(@) THEN @ ELSE Append(@, page_no)]

RECURSIVE AddParagraphs(_, _, _)
AddParagraphs(st, paras, page_no) ==
    IF paras = <<>> THEN st
    ELSE AddParagraphs(AddParagraph(st, Head(paras), page_no), Tail(paras), page_no)

\* lines 44-71: the pages from number i on
RECURSIVE ChunkPages(_, _, _)
ChunkPages(st, doc, i) ==
    IF i > Len(doc) THEN st
    ELSE IF is_low_information_page(doc[i]) THEN ChunkPages(st, doc, i + 1)
    ELSE ChunkPages([AddParagraphs(st, doc[i].paras, i) EXCEPT !.pages_used = Append(@, i)],
                    doc, i + 1)

semantic_chunk_pdf(doc) ==
    LET st == ChunkPages(ChunkerStart, doc, 1)
    IN [chunks |-> IF st.current_chunk # <<>> /\ JoinedLen(st.current_chunk) >= MinChunkSize
                   THEN Append(st.chunks, [text |-> st.current_chunk, pages |-> st.current_pages])
                   ELSE st.chunks,
        pages_used |-> st.pages_used]

\* pages a PDF can hold; a paragraph's text names the page content it is
\* part of
Pages ==
    { Page(<<Para("one long paragraph", 1200)>>, 8, FALSE, FALSE),
      Page(<<Para("half a chunk, first", 500), Para("half a chunk, second", 499)>>, 8, FALSE, FALSE),
      Page(<<Para("two mid, first", 300), Para("two mid, second", 300)>>, 8, FALSE, FALSE),
      Page(<<Para("big then mid, first", 700), Para("big then mid, second", 400)>>, 8, FALSE, FALSE),
      Page(<<Para("two small, first", 150), Para("two small, second", 100)>>, 6, FALSE, FALSE),
      Page(<<Para("short page", 150)>>, 6, FALSE, FALSE),
      Page(<<Para("page number and footer", 400)>>, 2, FALSE, FALSE),
      Page(<<Para("table of contents", 300)>>, 8, TRUE, FALSE),
      Page(<<Para("chapter with body", 600)>>, 8, TRUE, FALSE),
      Page(<<Para("references", 600)>>, 8, FALSE, TRUE) }

PdfDocs(n) == UNION {[1..k -> Pages] : k \in 0..n}

ChunkIdle == [pc |-> "idle", doc |-> <<>>, chunks |-> <<>>, pages_used |-> <<>>]

ChunkGiven(doc) == [pc |-> "given", doc |-> doc, chunks |-> <<>>, pages_used |-> <<>>]

chunk_pdf ==
    /\ chunker.pc = "given"
    /\ LET out == semantic_chunk_pdf(chunker.doc)
       IN chunker' = [chunker EXCEPT !.pc = "chunked", !.chunks = out.chunks,
                                     !.pages_used = out.pages_used]
    /\ UNCHANGED <<pipeVars, addVars, resVars, batchVars, fuse, ingest>>

\* what parse_file has built: its three lists, and whether its except
\* block ran
NothingParsed == [documents |-> <<>>, ids |-> <<>>, metadatas |-> <<>>, raised |-> FALSE]

\* the except block of lines 226-229
Caught(out) == [out EXCEPT !.raised = TRUE]

\* documents.append(text); metadatas.append({...}); ids.append(...)
AppendRecord(out, text, meta, id) ==
    [out EXCEPT !.documents = Append(@, text), !.metadatas = Append(@, meta),
                !.ids = Append(@, id)]

\* mutant: the id does not carry the index
MakeId_NoIndex(filename, kind, idx) == <<filename, kind, 0>>

\* f"{filename}_chunk_{idx}", f"{filename}_item_{idx}"
MakeId(filename, kind, idx) == <<filename, kind, idx>>

\* the words of the content_type tests that a file name of the model holds
\* (filename.lower())
NameWords(filename) ==
    CASE filename = "iso29148.pdf" -> {"iso", "29148"}
      [] filename = "rules.json" -> {"rule"}
      [] filename = "glossary.json" -> {"glossary"}
      [] OTHER -> {}

\* lines 95-109: the chunks from index idx (1-based) on
RECURSIVE PdfChunks(_, _, _, _)
PdfChunks(out, filename, chunks, idx) ==
    IF idx > Len(chunks) THEN out
    ELSE LET page_nums == chunks[idx].pages
             min == CHOOSE x \in Range(page_nums) : \A y \in Range(page_nums) : x <= y
             max == CHOOSE x \in Range(page_nums) : \A y \in Range(page_nums) : x >= y
             page_range == IF Len(page_nums) > 1 THEN <<min, "-", max>> ELSE <<page_nums[1]>>
             content_type == IF NameWords(filename) \cap {"iso", "29148"} # {} THEN "standard"
                             ELSE IF "glossary" \in NameWords(filename) THEN "glossary"
                             ELSE "document"
             meta == [source |-> filename, page |-> page_range, type |-> "pdf",
                      content_type |-> content_type, chunk_id |-> idx - 1]
         IN PdfChunks(AppendRecord(out, chunks[idx].text, meta, MakeId(filename, "_chunk_", idx - 1)),
                      filename, chunks, idx + 1)

\* lines 89-112 (fitz.open raises on a file that is no PDF)
ParsePdf(file) ==
    IF ~file.readable THEN Caught(NothingParsed)
    ELSE PdfChunks(NothingParsed, file.name, semantic_chunk_pdf(file.doc).chunks, 1)

\* the items of a JSON file: a rule (its example lists hold strings, or
\* not: then ', '.join raises TypeError), a glossary term, another dict, a
\* value that is no dict
RuleItem(rule_id, joinable) == [kind |-> "rule", rule_id |-> rule_id, joinable |-> joinable]
TermItem(term, definition) == [kind |-> "term", term |-> term, definition |-> definition]
DictItem(key) == [kind |-> "dict", key |-> key]
ValueItem(value) == [kind |-> "value", value |-> value]

\* lines 130-147: the text of an item
ItemText(item) ==
    CASE item.kind = "rule" -> <<"Rule ", item.rule_id, ": ", "\n", "Description: ", "\n",
                                 "Bad Examples: ", "\n", "Good Examples: ", "\n",
                                 "Correction Strategy: ">>
      [] item.kind = "term" -> <<item.term, ": ", item.definition>>
      [] item.kind = "dict" -> <<"{", item.key, "}">>
      [] OTHER -> <<item.value>>

ItemTextRaises(item) == item.kind = "rule" /\ ~item.joinable

\* lines 128-156: the items from index idx (1-based) on
RECURSIVE JsonItems(_, _, _, _)
JsonItems(out, filename, items, idx) ==
    IF idx > Len(items) THEN out
    ELSE IF ItemTextRaises(items[idx]) THEN Caught(out)
    ELSE LET content_type == IF "rule" \in NameWords(filename) THEN "ambiguity_rule"
                             ELSE IF "glossary" \in NameWords(filename) THEN "glossary_term"
                             ELSE "structured_data"
             meta == [source |-> filename, item |-> idx - 1, type |-> "json",
                      content_type |-> content_type]
         IN JsonItems(AppendRecord(out, ItemText(items[idx]), meta, MakeId(filename, "_item_", idx - 1)),
                      filename, items, idx + 1)

\* lines 115-156. data: what json.load gives; "invalid" when it raises, a
\* list, a dict (items: its "items" entry, [] without one), or another
\* value, on which data.get raises AttributeError
ParseJson(file) ==
    CASE file.data.form = "invalid" -> Caught(NothingParsed)
      [] file.data.form = "value" -> Caught(NothingParsed)
      [] OTHER -> JsonItems(NothingParsed, file.name, file.data.items, 1)

\* a TXT/MD content is a sequence of units of TxtUnit characters each: "T"
\* a line "TEMPLATE: <name>", "x" text, " " whitespace
TxtUnit == 100
ChunkSize == 800 \div TxtUnit
ChunkOverlap == 100 \div TxtUnit
MinTxtChunk == 200 \div TxtUnit

\* content[a:b]
Slice(content, a, b) == SubSeq(content, a + 1, IF b > Len(content) THEN Len(content) ELSE b)

TemplateMeta(filename, chunk_id) ==
    [source |-> filename, type |-> "template", content_type |-> "template", chunk_id |-> chunk_id]

\* append the chunk when it has the minimum length; st is (out, chunk_idx)
KeepTemplateChunk(st, filename, chunk) ==
    IF Len(chunk) >= MinTxtChunk
    THEN [st EXCEPT !.out = AppendRecord(@, chunk, TemplateMeta(filename, st.chunk_idx),
                                         MakeId(filename, "_chunk_", st.chunk_idx)),
                    !.chunk_idx = @ + 1]
    ELSE st

\* re.search(template_pattern, content[from:]): the offset of the next
\* marker at or after offset from, -1 without one
NextMarker(content, from) ==
    IF \E m \in (from + 1)..Len(content) : content[m] = "T"
    THEN (CHOOSE m \in (from + 1)..Len(content) :
              content[m] = "T" /\ \A n \in (from + 1)..(m - 1) : content[n] # "T") - 1
    ELSE -1

\* lines 174-209: the markers from offset from on
RECURSIVE TemplateSections(_, _, _, _)
TemplateSections(st, filename, content, from) ==
    LET start == NextMarker(content, from)
    IN IF start < 0 THEN st
       ELSE LET template_end == start + 1
                next_start == NextMarker(content, template_end)
                s1 == IF start > st.chunk_start
                      THEN KeepTemplateChunk(st, filename, Strip(Slice(content, st.chunk_start, start)))
                      ELSE st
                template_text == IF next_start >= 0 THEN Strip(Slice(content, start, next_start))
                                 ELSE Strip(Slice(content, start, Len(content)))
                s2 == KeepTemplateChunk(s1, filename, template_text)
                s3 == [s2 EXCEPT !.chunk_start = IF next_start >= 0 THEN next_start
                                                 ELSE template_end + Len(content)]
            IN TemplateSections(s3, filename, content, template_end)

\* lines 212-224: the chunks from offset i on
RECURSIVE SizeChunks(_, _, _, _)
SizeChunks(out, filename, content, i) ==
    IF i >= Len(content) THEN out
    ELSE LET chunk == Strip(Slice(content, i, i + ChunkSize))
             chunk_id == i \div (ChunkSize - ChunkOverlap)
             next == IF Len(chunk) >= MinTxtChunk
                     THEN AppendRecord(out, chunk, TemplateMeta(filename, chunk_id),
                                       MakeId(filename, "_chunk_", chunk_id))
                     ELSE out
         IN SizeChunks(next, filename, content, i + (ChunkSize - ChunkOverlap))

\* lines 159-224 (f.read raises on bytes that are not UTF-8)
ParseTxt(file) ==
    IF ~file.readable THEN Caught(NothingParsed)
    ELSE IF NextMarker(file.content, 0) >= 0
    THEN TemplateSections([out |-> NothingParsed, chunk_start |-> 0, chunk_idx |-> 0],
                          file.name, file.content, 0).out
    ELSE SizeChunks(NothingParsed, file.name, file.content, 0)

parse_file(file) ==
    CASE file.ext = ".pdf" -> ParsePdf(file)
      [] file.ext = ".json" -> ParseJson(file)
      [] file.ext \in {".txt", ".md"} -> ParseTxt(file)
      [] OTHER -> NothingParsed

\* the entries of the knowledge folder
Entry(name, ext) ==
    [name |-> name, ext |-> ext, isfile |-> TRUE, readable |-> TRUE, doc |-> <<>>,
     data |-> [form |-> "none", items |-> <<>>], content |-> <<>>]

\* a PDF of four pages: an introduction, a body page, a cover of two lines
\* and a page of terms
PdfIso ==
    [Entry("iso29148.pdf", ".pdf") EXCEPT
        !.doc = <<Page(<<Para("intro", 300)>>, 6, FALSE, FALSE),
                  Page(<<Para("intro", 300), Para("scope", 450)>>, 9, FALSE, FALSE),
                  Page(<<Para("title", 150)>>, 2, FALSE, FALSE),
                  Page(<<Para("terms", 400), Para("intro", 300)>>, 8, FALSE, FALSE)>>]
JsonRules ==
    [Entry("rules.json", ".json") EXCEPT
        !.data = [form |-> "list",
                  items |-> <<RuleItem("R1", TRUE), TermItem("login", "sign-in"), ValueItem("note")>>]]
JsonBroken ==
    [Entry("broken.json", ".json") EXCEPT
        !.data = [form |-> "list",
                  items |-> <<RuleItem("R1", TRUE), RuleItem("R2", FALSE), RuleItem("R3", TRUE)>>]]
JsonGlossary ==
    [Entry("glossary.json", ".json") EXCEPT
        !.data = [form |-> "dict", items |-> <<TermItem("user", "a person"), DictItem("k")>>]]
TxtTemplates ==
    [Entry("templates.md", ".md") EXCEPT
        !.content = <<"x", "x", " ", "T", "x", "x", " ", "T", "x", " ">>]
TxtNotes ==
    [Entry("notes.txt", ".txt") EXCEPT
        !.content = <<"x", "x", "x", "x", " ", "x", "x", "x", "x", "x">>]
\* with them: a file that is no PDF, a file that is no JSON, a JSON number,
\* a text that is not UTF-8, an image, a subdirectory
Entries ==
    {PdfIso, JsonRules, JsonBroken, JsonGlossary, TxtTemplates, TxtNotes,
     [Entry("scan.pdf", ".pdf") EXCEPT !.readable = FALSE],
     [Entry("invalid.json", ".json") EXCEPT !.data = [form |-> "invalid", items |-> <<>>]],
     [Entry("value.json", ".json") EXCEPT !.data = [form |-> "value", items |-> <<>>]],
     [Entry("latin1.txt", ".txt") EXCEPT !.readable = FALSE],
     Entry("logo.png", ".png"),
     [Entry("archive", "") EXCEPT !.isfile = FALSE]}

\* os.listdir(folder_path): up to MaxFiles entries, in any order
Folders ==
    {s \in UNION {[1..k -> Entries] : k \in 0..MaxFiles} :
        \A i, j \in 1..Len(s) : i # j => s[i] # s[j]}

\* parsed: the parse_file calls made, each with its file and what it returned
IngestIdle == [pc |-> "idle", folder |-> <<>>, i |-> 0, all_docs |-> <<>>, all_ids |-> <<>>,
               all_metas |-> <<>>, parsed |-> <<>>]

\* lines 235-238: the call
load_initial_knowledge(exists, folder) ==
    /\ ingest.pc = "idle"
    /\ ingest' = IF ~exists THEN [IngestIdle EXCEPT !.pc = "returned"]
                 ELSE [IngestIdle EXCEPT !.pc = "listing", !.folder = folder, !.i = 1]
    /\ UNCHANGED <<pipeVars, addVars, resVars, batchVars, fuse, chunker>>

\* lines 240-246: one entry of the folder
load_file ==
    /\ ingest.pc = "listing"
    /\ ingest.i <= Len(ingest.folder)
    /\ LET file == ingest.folder[ingest.i]
           out == parse_file(file)
       IN ingest' = IF file.isfile
                    THEN [ingest EXCEPT !.i = @ + 1,
                                        !.all_docs = Extend(@, out.documents),
                                        !.all_ids = Extend(@, out.ids),
                                        !.all_metas = Extend(@, out.metadatas),
                                        !.parsed = Append(@, [file |-> file, out |-> out])]
                    ELSE [ingest EXCEPT !.i = @ + 1]
    /\ UNCHANGED <<pipeVars, addVars, resVars, batchVars, fuse, chunker>>

\* line 248
load_return ==
    /\ ingest.pc = "listing"
    /\ ingest.i > Len(ingest.folder)
    /\ ingest' = [ingest EXCEPT !.pc = "returned"]
    /\ UNCHANGED <<pipeVars, addVars, resVars, batchVars, fuse, chunker>>

\* ------------------------------------------------------------ specifications
\* ResolutionPipeline.__init__ on a stored collection
PipelineInit(coll) ==
    /\ collection = coll
    /\ documents = CollectionDocuments(coll)
    /\ metadatas = CollectionMetadatas(coll)
    /\ content_to_meta = ZipDict(CollectionDocuments(coll), CollectionMetadatas(coll))
    /\ bm25 = IF coll = <<>> THEN NoIndex ELSE BM25Okapi(TokenizedCorpus(CollectionDocuments(coll)))

\* the collection after load_models seeded it from the static knowledge folder
SeededCollection ==
    CollectionAdd(<<>>, FileRules.documents, FileRules.ids, FileRules.metadatas)

InitRest ==
    /\ add = AddIdle
    /\ pre = <<>>
    /\ nAdds = 0
    /\ res = ResIdle
    /\ nResolves = 0
    /\ processing_stopped = FALSE
    /\ analysis_results = <<>>
    /\ run = RunIdle
    /\ nRuns = 0

InitPure ==
    /\ fuse = FuseIdle
    /\ ingest = IngestIdle
    /\ chunker = ChunkIdle

Queries == {<<"Login", " ", "fast.">>}

\* the shared pipeline: ingestion (sidebar, load_models) and retrieval
InitStore == PipelineInit(<<>>) /\ InitRest /\ InitPure

NextStore ==
    \/ \E f \in AddInputs : add_knowledge(f)
    \/ add_embed
    \/ add_persist
    \/ add_extend
    \/ add_lookup
    \/ add_rebuild
    \/ \E q \in Queries : resolve_ambiguity(q)
    \/ res_check
    \/ res_vector
    \/ res_keyword
    \/ res_rerank
    \/ res_generate

SpecStore == InitStore /\ [][NextStore]_vars

\* one session's batch runs over a pipeline that is empty or seeded
InitBatch == (\E coll \in {<<>>, SeededCollection} : PipelineInit(coll)) /\ InitRest /\ InitPure

NextBatch ==
    \/ \E resolver \in BOOLEAN, text_input \in TextInputs : process_requirements(resolver, text_input)
    \/ loop_check
    \/ predict
    \/ res_check
    \/ res_vector
    \/ res_keyword
    \/ res_rerank
    \/ res_generate
    \/ record
    \/ stop_request

SpecBatch == InitBatch /\ [][NextBatch]_vars

FairBatch == SpecBatch /\ WF_vars(loop_check \/ predict \/ res_check \/ res_vector \/ res_keyword \/ res_rerank \/ res_generate \/ record)

\* the RRF fusion of retrieve_hybrid on candidate lists of up to MaxList
\* entries, with the default top_k and a small one
InitFuse ==
    /\ PipelineInit(<<>>)
    /\ InitRest
    /\ ingest = IngestIdle
    /\ chunker = ChunkIdle
    /\ \E v \in ListsUpTo(MaxList), b \in ListsUpTo(MaxList - 1), k \in {2, TopK} :
          fuse = FuseGiven(v, b, k)

NextFuse == rrf_fusion

SpecFuse == InitFuse /\ [][NextFuse]_vars

\* load_initial_knowledge on a folder of up to MaxFiles entries
InitIngest == PipelineInit(<<>>) /\ InitRest /\ InitPure

NextIngest ==
    \/ \E exists \in BOOLEAN, folder \in Folders : load_initial_knowledge(exists, folder)
    \/ load_file
    \/ load_return

SpecIngest == InitIngest /\ [][NextIngest]_vars

\* semantic_chunk_pdf on a document of up to MaxPages pages
InitChunk ==
    /\ PipelineInit(<<>>)
    /\ InitRest
    /\ fuse = FuseIdle
    /\ ingest = IngestIdle
    /\ \E doc \in PdfDocs(MaxPages) : chunker = ChunkGiven(doc)

NextChunk == chunk_pdf

SpecChunk == InitChunk /\ [][NextChunk]_vars

\* ------------------------------------------------------------ claims
Running == run.pc \in {"loop", "predict", "resolve"}
Stopped == run.pc = "done" /\ run.exit = "break"
Completed == run.pc = "done" /\ run.exit = "exhausted"

\* C1: the stop flag is checked before each sentence: when it is set at the
\* check before item k the run breaks there with results and classifications
\* untouched, the stopped run holds exactly k-1 results and k-1 classified
\* items, and nothing of the run changes afterwards.
C1_StopHalts ==
    /\ [](Stopped => Len(analysis_results) = run.idx - 1 /\ Len(run.log) = run.idx - 1)
    /\ [][nRuns' = nRuns =>
            /\ (run.pc = "loop" /\ processing_stopped /\ run.idx <= Len(run.sentences) /\ run' # run)
                   => (Stopped' /\ run'.log = run.log /\ run'.idx = run.idx
                       /\ analysis_results' = analysis_results /\ res' = res)
            /\ Stopped => (run' = run /\ analysis_results' = analysis_results /\ res' = res)]_vars

\* a run stopped after its first item, with items left
C1_Witness ==
    Stopped /\ Len(analysis_results) >= 1 /\ run.idx <= Len(run.sentences)

\* C2: a sentence on which the detector raised has exactly one result, the
\* Error result with score 0.0, no rewrite, no evidence and the error detail;
\* every other processed sentence has its normal result; a run that was not
\* stopped ends with one result per sentence.
C2_ClassifierFailureIsolated ==
    (run.pc # "idle" /\ run.exit # "rejected") =>
        /\ Len(analysis_results) = Len(run.log)
        /\ \A i \in 1..Len(run.log) :
              IF run.log[i].predicted = "raise"
              THEN analysis_results[i] =
                      [sentence |-> run.sentences[i], label |-> "Error", score |-> 0,
                       rewrite |-> None, evidence |-> <<>>, status |-> Absent,
                       error |-> run.log[i].error]
              ELSE /\ analysis_results[i].sentence = run.sentences[i]
                   /\ analysis_results[i].label = run.log[i].predicted
                   /\ analysis_results[i].score = run.log[i].score
                   /\ analysis_results[i].status \in {"clear", "ambiguous"}
                   /\ analysis_results[i].error = Absent
        /\ (run.pc = "done" /\ ~Stopped) => Len(analysis_results) = Len(run.sentences)

\* a completed run whose first sentence made the detector raise and whose
\* second was classified normally
C2_Witness ==
    /\ Completed
    /\ Len(run.log) >= 2
    /\ run.log[1].predicted = "raise"
    /\ run.log[2].predicted # "raise"

\* C3: a sentence classified as not clear whose resolution raised keeps the
\* detector's label and score with status 'ambiguous', has the rewrite
\* "Error: " + message and no evidence, and the loop goes to the next item.
C3_ResolutionFailureIsolated ==
    (run.pc # "idle" /\ run.exit # "rejected") =>
        /\ \A i \in 1..Len(run.log) :
              run.log[i].resolved = "raised" =>
                  /\ i <= Len(analysis_results)
                  /\ analysis_results[i] =
                         [sentence |-> run.sentences[i], label |-> run.log[i].predicted,
                          score |-> run.log[i].score,
                          rewrite |-> <<"Error: ", run.log[i].error>>, evidence |-> <<>>,
                          status |-> "ambiguous", error |-> Absent]
                  /\ run.log[i].predicted \notin ClearLabels
                  /\ run.idx > i
        /\ (run.pc = "done" /\ ~Stopped) => Len(run.log) = Len(run.sentences)

\* a run whose first resolution raised and whose second sentence was processed
C3_Witness ==
    /\ run.pc # "idle" /\ run.exit # "rejected"
    /\ Len(run.log) >= 2
    /\ run.log[1].resolved = "raised"

\* C4: a run that entered the loop ends Completed or Stopped, whatever the
\* detector and the resolver raise on its items; it never ends otherwise.
C4_RunTerminates ==
    /\ [](run.pc = "done" => (Completed \/ Stopped \/ run.exit = "rejected"))
    /\ (Running ~> (Completed \/ Stopped))

\* a completed run in which the detector raised on one item and the resolver
\* on another
C4_Witness ==
    /\ Completed
    /\ \E i, j \in 1..Len(run.log) :
          run.log[i].predicted = "raise" /\ run.log[j].resolved = "raised"

\* C5: after an add_knowledge call completes, the mirror lists are as long
\* as the collection holds chunks.
C5_MirrorMatchesStore ==
    (add.pc = "idle" /\ add.outcome = "returned") =>
        /\ Len(documents) = Len(collection)
        /\ Len(metadatas) = Len(collection)

\* C6: an add_knowledge call that raised has left the collection, the mirror
\* lists, the lookup and the index as they were when it was called.
C6_FailedAddCommitsNothing ==
    (add.pc = "idle" /\ add.outcome = "raised") => Snapshot = pre

\* C7: a retrieval whose keyword search runs while an add_knowledge call is
\* in progress finds the lexical index built from exactly the documents of
\* the mirror it passes to it (both pre-add or both post-add).
C7_NoMixedCorpus ==
    (res.seen.docsAtKeyword >= 0 /\ res.seen.addAtKeyword # "idle") =>
        res.seen.indexAtKeyword = res.seen.docsAtKeyword

\* C8: no step removes or rewrites a stored chunk: the collection, the
\* document list and the metadata list before a step are prefixes of those
\* after it.
C8_AppendOnly ==
    [][/\ IsPrefix(collection, collection')
       /\ IsPrefix(documents, documents')
       /\ IsPrefix(metadatas, metadatas')]_vars

\* a text ingested under a second id: both chunks are stored
C8_Witness ==
    /\ add.pc = "idle" /\ add.outcome = "returned"
    /\ \E i, j \in 1..Len(collection) :
          /\ i < j
          /\ collection[i].document = collection[j].document
          /\ collection[i].id # collection[j].id
          /\ documents[i] = collection[i].document

\* C9: a retrieval that finds the corpus empty returns no candidates and has
\* called neither the embedding model, nor the collection query, nor the
\* lexical index.
C9_EmptyCorpusShortCircuit ==
    res.seen.docsAtCheck = 0 =>
        /\ res.pc = "returned"
        /\ res.candidates = <<>>
        /\ res.calls.embed = 0 /\ res.calls.query = 0 /\ res.calls.bm25 = 0

\* a retrieval on the empty corpus has returned
C9_Witness == res.seen.docsAtCheck = 0 /\ res.pc = "returned"

\* C10: a resolve_ambiguity call whose retrieval gave no candidates returns
\* exactly ("No relevant context found.", []) and has called neither the
\* reranker nor the generation backend.
C10_NoContextResult ==
    (res.pc = "returned" /\ res.candidates = <<>>) =>
        /\ res.rewrite = NoContext
        /\ res.evidence = <<>>
        /\ res.calls.rerank = 0 /\ res.calls.generate = 0

\* resolve_ambiguity has returned without candidates
C10_Witness == res.pc = "returned" /\ res.candidates = <<>> /\ res.text # <<>>

\* positions of a candidate in a list
PositionsIn(list, d) == {i \in 1..Len(list) : list[i] = d}

\* C11: every candidate's score is the sum, over the lists it appears in, of
\* 1/(rank+60) for its 0-based rank in that list (whichever of its positions
\* is taken as its rank) and 0 from a list it is not in; the result holds
\* the candidates in descending score order, cut to top_k; for [A,B,C] and
\* [B,D], B comes before A.
C11_FusedScores ==
    fuse.pc = "fused" =>
        LET Candidates == Range(fuse.vector_docs) \cup Range(fuse.bm25_docs)
            Term(l, d, i) == IF PositionsIn(l, d) = {} THEN 0 ELSE RRFScale \div ((i - 1) + RRFOffset)
            Ranks(l, d) == IF PositionsIn(l, d) = {} THEN {0} ELSE PositionsIn(l, d)
            Kept == IF Cardinality(Candidates) < fuse.top_k THEN Cardinality(Candidates) ELSE fuse.top_k
        IN /\ DOMAIN fuse.scores = Candidates
           /\ \A d \in Candidates :
                 \E i \in Ranks(fuse.vector_docs, d), j \in Ranks(fuse.bm25_docs, d) :
                    fuse.scores[d] = Term(fuse.vector_docs, d, i) + Term(fuse.bm25_docs, d, j)
           /\ Len(fuse.result) = Kept
           /\ Range(fuse.result) \subseteq Candidates
           /\ \A i, j \in 1..Len(fuse.result) :
                 i < j => /\ fuse.result[i] # fuse.result[j]
                          /\ fuse.scores[fuse.result[i]] >= fuse.scores[fuse.result[j]]
           /\ \A d \in Candidates \ Range(fuse.result), i \in 1..Len(fuse.result) :
                 fuse.scores[fuse.result[i]] >= fuse.scores[d]
           /\ (fuse.vector_docs = <<"A", "B", "C">> /\ fuse.bm25_docs = <<"B", "D">>) =>
                 \E i, j \in 1..Len(fuse.result) :
                    i < j /\ fuse.result[i] = "B" /\ fuse.result[j] = "A"

\* where a candidate is first seen scanning the semantic list, then the
\* lexical list
FirstSeenAt(d) ==
    CHOOSE i \in PositionsIn(fuse.vector_docs \o fuse.bm25_docs, d) :
        \A j \in PositionsIn(fuse.vector_docs \o fuse.bm25_docs, d) : i <= j

\* C12: two candidates of the fused result with equal scores stand in the
\* order in which they were first seen scanning the semantic list, then the
\* lexical list.
C12_TiesKeepFirstSeenOrder ==
    fuse.pc = "fused" =>
        \A i, j \in 1..Len(fuse.result) :
            (i < j /\ fuse.scores[fuse.result[i]] = fuse.scores[fuse.result[j]]) =>
                FirstSeenAt(fuse.result[i]) < FirstSeenAt(fuse.result[j])

\* a fused result with two candidates of equal score, the second of them
\* ranked higher than the first in the lexical list
C12_Witness ==
    /\ fuse.pc = "fused"
    /\ \E i, j \in 1..Len(fuse.result) :
          /\ i < j
          /\ fuse.scores[fuse.result[i]] = fuse.scores[fuse.result[j]]
          /\ \E m, n \in 1..Len(fuse.bm25_docs) :
                m < n /\ fuse.bm25_docs[m] = fuse.result[j] /\ fuse.bm25_docs[n] = fuse.result[i]

\* the results whose status is ambiguous and whose rewrite is not None
Rewritten == {i \in 1..Len(analysis_results) :
                analysis_results[i].status = "ambiguous" /\ analysis_results[i].rewrite # None}

\* C13 as stated: a recorded ambiguous result with a rewrite has evidence,
\* unless its retrieval found no candidates, and then its rewrite is the
\* sentinel and its evidence is empty.
C13_EvidenceOrSentinel ==
    (run.pc # "idle" /\ run.exit # "rejected") =>
        \A i \in Rewritten :
            IF run.log[i].resolved = "returned" /\ run.log[i].candidates = 0
            THEN analysis_results[i].rewrite = NoContext /\ analysis_results[i].evidence = <<>>
            ELSE analysis_results[i].evidence # <<>>

\* C13, amended: a recorded ambiguous result with a rewrite has between one
\* and five evidence records exactly when its rewrite is the generated text;
\* when its retrieval found no candidates the rewrite is the sentinel, when
\* the generation backend failed it is "API Error: " + description, when the
\* resolver raised it is "Error: " + message, and in these three cases the
\* evidence is empty.
C13_EvidenceUnlessFailed ==
    (run.pc # "idle" /\ run.exit # "rejected") =>
        \A i \in Rewritten :
            LET result == analysis_results[i]
                entry == run.log[i]
            IN CASE entry.resolved = "raised" ->
                       result.rewrite = <<"Error: ", entry.error>> /\ result.evidence = <<>>
                 [] entry.resolved = "returned" /\ entry.candidates = 0 ->
                       result.rewrite = NoContext /\ result.evidence = <<>>
                 [] entry.resolved = "returned" /\ entry.candidates > 0 ->
                       \/ /\ result.rewrite = GeneratedText
                          /\ Len(result.evidence) \in 1..MaxEvidenceItems
                       \/ /\ \E failure \in BackendFailures : result.rewrite = <<"API Error: ", failure>>
                          /\ result.evidence = <<>>
                 [] OTHER -> FALSE

\* a run that recorded a generated rewrite with evidence and, for another
\* sentence with candidates, a backend failure without evidence
C13_Witness ==
    /\ run.pc # "idle" /\ run.exit # "rejected"
    /\ \E i, j \in Rewritten :
          /\ analysis_results[i].rewrite = GeneratedText
          /\ analysis_results[i].evidence # <<>>
          /\ run.log[j].candidates > 0
          /\ analysis_results[j].rewrite = <<"API Error: ", "quota exceeded">>

\* C14: a resolve_ambiguity call that reached the generation backend has
\* returned, never raised: with the generated text and the evidence of the
\* reranked documents when the backend responded, with "API Error: " +
\* failure description and no evidence when it failed.
C14_GenerationFailureReturned ==
    res.backend # NotCalled =>
        /\ res.pc = "returned"
        /\ res.calls.generate = 1
        /\ IF res.backend = "response"
           THEN /\ res.rewrite = GeneratedText
                /\ res.evidence = [i \in 1..Len(res.best_docs) |-> content_to_meta[res.best_docs[i]]]
                /\ res.best_docs # <<>>
           ELSE /\ res.rewrite = <<"API Error: ", res.backend>>
                /\ res.evidence = <<>>

\* the backend failed with the second description and the call returned
C14_Witness ==
    res.pc = "returned" /\ res.backend = "deadline exceeded" /\ res.best_docs # <<>>

\* the index an id and a metadata record carry
IdIndex(id) == id[3]
MetaIndex(file, meta) == IF file.ext = ".json" THEN meta.item ELSE meta.chunk_id

\* the text parse_file is to store for the unit with index idx of a file
UnitText(file, idx) ==
    CASE file.ext = ".json" -> ItemText(file.data.items[idx + 1])
      [] file.ext = ".pdf" -> semantic_chunk_pdf(file.doc).chunks[idx + 1].text
      [] OTHER -> Strip(Slice(file.content, idx * (ChunkSize - ChunkOverlap),
                              idx * (ChunkSize - ChunkOverlap) + ChunkSize))

\* C15: every parse_file output, also one returned after a failure partway,
\* has three lists of one length, entry i of each belonging to the same
\* unit of the file (same source, same index, the text of that unit), and
\* ids that are pairwise distinct.
C15_ParseOutputAligned ==
    \A p \in 1..Len(ingest.parsed) :
        LET file == ingest.parsed[p].file
            out == ingest.parsed[p].out
        IN /\ Len(out.documents) = Len(out.ids)
           /\ Len(out.ids) = Len(out.metadatas)
           /\ \A i, j \in 1..Len(out.ids) : i # j => out.ids[i] # out.ids[j]
           /\ \A i \in 1..Len(out.ids) :
                 /\ out.ids[i][1] = file.name
                 /\ out.metadatas[i].source = file.name
                 /\ IdIndex(out.ids[i]) = MetaIndex(file, out.metadatas[i])
                 /\ out.documents[i] # <<>>
                 /\ (NextMarker(file.content, 0) < 0) =>
                        out.documents[i] = UnitText(file, IdIndex(out.ids[i]))

\* a folder read to its end with a JSON file that failed after its first
\* record and a file of each other format with two chunks or more
C15_Witness ==
    /\ ingest.pc = "returned"
    /\ \E p \in 1..Len(ingest.parsed) :
          ingest.parsed[p].out.raised /\ Len(ingest.parsed[p].out.ids) >= 1
    /\ \E p \in 1..Len(ingest.parsed) :
          ingest.parsed[p].file.ext # ".json" /\ Len(ingest.parsed[p].out.ids) >= 2

\* the outputs of the parse_file calls made, one after the other
RECURSIVE ParsedDocs(_)
ParsedDocs(parsed) ==
    IF parsed = <<>> THEN <<>> ELSE Head(parsed).out.documents \o ParsedDocs(Tail(parsed))

\* C16: a parse_file call that hit an internal failure has returned three
\* empty lists, and load_initial_knowledge has parsed every file of the
\* folder and returns the records of the others.
C16_FailedParseIsEmpty ==
    /\ \A p \in 1..Len(ingest.parsed) :
          ingest.parsed[p].out.raised =>
              /\ ingest.parsed[p].out.documents = <<>>
              /\ ingest.parsed[p].out.ids = <<>>
              /\ ingest.parsed[p].out.metadatas = <<>>
    /\ ingest.pc = "returned" =>
          /\ Len(ingest.parsed) = Cardinality({i \in 1..Len(ingest.folder) : ingest.folder[i].isfile})
          /\ ingest.all_docs = ParsedDocs(ingest.parsed)

\* the call got past the empty-input check of line 20
PastInputCheck == run.pc # "idle" /\ run.ret.message # "Please enter text or upload a document."

\* C17: a call that gets past the empty-input check empties the result
\* list, and from then on the list holds exactly the results of the items
\* this run has processed, result i being for sentence i of this run.
C17_ResultsReset ==
    /\ [](PastInputCheck =>
            /\ Len(analysis_results) = Len(run.log)
            /\ Len(analysis_results) <= Len(run.sentences)
            /\ \A i \in 1..Len(analysis_results) : analysis_results[i].sentence = run.sentences[i])
    /\ [][(nRuns' # nRuns /\ PastInputCheck') => analysis_results' = <<>>]_vars

\* a run that found results of an earlier run and has recorded one of its own
C17_Witness ==
    PastInputCheck /\ run.prior >= 2 /\ Len(analysis_results) = 1 /\ Len(run.log) = 1

\* index of the last occurrence of a text in the mirror
LastIndexOf(d) == CHOOSE i \in 1..Len(documents) :
                      documents[i] = d /\ \A j \in (i + 1)..Len(documents) : documents[j] # d

\* C18: whenever no add_knowledge call is in progress, every text of the
\* mirror has a lookup entry, which is the metadata of the last chunk added
\* with that text; and the evidence step of resolve_ambiguity gives the
\* empty record for a text without entry and never raises for it.
C18_LookupByText ==
    /\ [](add.pc = "idle" =>
            \A i \in 1..Len(documents) :
                /\ documents[i] \in DOMAIN content_to_meta
                /\ content_to_meta[documents[i]] = metadatas[LastIndexOf(documents[i])])
    /\ [][(res.pc = "rerank" /\ res' # res) =>
            \/ res'.pc = "raised" /\ res'.error = "reranker failed"
            \/ /\ res'.pc = "generate"
               /\ Len(res'.evidence) = Len(res'.best_docs)
               /\ \A i \in 1..Len(res'.best_docs) :
                     res'.evidence[i] = IF res'.best_docs[i] \in DOMAIN content_to_meta
                                        THEN content_to_meta[res'.best_docs[i]]
                                        ELSE EmptyMeta]_vars

\* two chunks of one text with different metadata are in the mirror, and a
\* retrieval has got the empty record for a text that had no entry
C18_Witness ==
    /\ add.pc = "idle"
    /\ \E i, j \in 1..Len(documents) :
          i < j /\ documents[i] = documents[j] /\ metadatas[i] # metadatas[j]
    /\ res.pc \in {"generate", "returned"}
    /\ \E i \in 1..Len(res.evidence) : res.evidence[i] = EmptyMeta

\* C19: while an item is being classified or resolved a stop request does
\* not end the run: the run leaves the item only by recording its result
\* and moving to the next check; a set flag ends the run at that check;
\* a stopped run holds one result per item it had begun.
C19_StopBetweenSentences ==
    /\ [][(nRuns' = nRuns /\ run.pc \in {"predict", "resolve"} /\ run' # run) =>
            /\ run'.pc \in {"resolve", "loop"}
            /\ run'.pc = "resolve" => (run'.idx = run.idx /\ analysis_results' = analysis_results)
            /\ run'.pc = "loop" =>
                  /\ run'.idx = run.idx + 1
                  /\ Len(analysis_results') = Len(analysis_results) + 1
                  /\ SubSeq(analysis_results', 1, Len(analysis_results)) = analysis_results
                  /\ analysis_results'[run.idx].sentence = run.sentences[run.idx]]_vars
    /\ [][(nRuns' = nRuns /\ run.pc = "loop" /\ processing_stopped /\ run' # run) =>
            run'.pc = "done"]_vars
    /\ [](Stopped => Len(analysis_results) = run.idx - 1)

\* a run stopped at the check before its second item, whose first item was
\* resolved to the end: the request came while that item was in progress
C19_Witness ==
    /\ Stopped
    /\ run.idx = 2 /\ Len(run.sentences) = 2
    /\ Len(analysis_results) = 1
    /\ run.log[1].resolved = "returned"
    /\ analysis_results[1].rewrite = GeneratedText

\* C20: the items are taken in input order, one at a time: the run stands
\* at item idx with exactly the idx - 1 earlier items recorded, result i
\* for sentence i; the resolver works on the current item only; the index
\* moves on by one; a completed run has one result per sentence.
C20_InOrderOneAtATime ==
    /\ [](Running =>
            /\ run.idx \in 1..(Len(run.sentences) + 1)
            /\ Len(analysis_results) = run.idx - 1
            /\ \A i \in 1..Len(analysis_results) : analysis_results[i].sentence = run.sentences[i]
            /\ run.pc = "resolve" => res.text = run.sentences[run.idx]
            /\ run.pc # "resolve" => res.pc = "idle")
    /\ [](Completed =>
            /\ Len(analysis_results) = Len(run.sentences)
            /\ \A i \in 1..Len(run.sentences) : analysis_results[i].sentence = run.sentences[i])
    /\ [][nRuns' = nRuns => run'.idx \in {run.idx, run.idx + 1}]_vars

\* a completed run of two different sentences
C20_Witness ==
    /\ Completed
    /\ Len(run.sentences) = 2
    /\ run.sentences[1] # run.sentences[2]
    /\ analysis_results[2].sentence = run.sentences[2]

\* C21: in a run the detector has been called exactly once for every item
\* begun, also for the items on which it raised; the generation backend at
\* most once per item, also when it failed; and an item whose generation
\* failed is recorded with the rewrite "API Error: " + description and no
\* evidence.
C21_NoRetry ==
    (PastInputCheck /\ run.exit # "rejected") =>
        /\ run.predicts = Len(run.log) + (IF run.pc = "resolve" THEN 1 ELSE 0)
        /\ res.calls.generate <= 1
        /\ \A i \in 1..Len(run.log) :
              /\ run.log[i].generates <= 1
              /\ run.log[i].predicted = "raise" =>
                    (analysis_results[i].label = "Error" /\ run.log[i].generates = 0)
              /\ run.log[i].backend \in BackendFailures =>
                    /\ run.log[i].generates = 1
                    /\ analysis_results[i].status = "ambiguous"
                    /\ analysis_results[i].rewrite = <<"API Error: ", run.log[i].backend>>
                    /\ analysis_results[i].evidence = <<>>

\* a completed run in which the detector raised on the first item and the
\* generation backend failed on the second
C21_Witness ==
    /\ Completed
    /\ Len(run.log) = 2
    /\ run.log[1].predicted = "raise"
    /\ run.log[2].backend \in BackendFailures
    /\ run.predicts = 2

\* the paragraphs of the pages of doc that is_low_information_page rejects
RejectedText(doc) ==
    UNION {Range(doc[i].paras) : i \in {n \in 1..Len(doc) : is_low_information_page(doc[n])}}

\* C22: every chunk semantic_chunk_pdf emits is between 200 and 1000
\* characters long, holds no paragraph of a page that
\* is_low_information_page rejects, and was flushed before any paragraph
\* whose appending took it over 1000 characters once it held 200.
C22_ChunksBounded ==
    chunker.pc = "chunked" =>
        \A c \in 1..Len(chunker.chunks) :
            LET chunk == chunker.chunks[c]
            IN /\ JoinedLen(chunk.text) >= MinChunkSize
               /\ JoinedLen(chunk.text) <= MaxChunkSize
               /\ Range(chunk.text) \cap RejectedText(chunker.doc) = {}
               /\ \A n \in Range(chunk.pages) : ~is_low_information_page(chunker.doc[n])
               /\ \A k \in 1..(Len(chunk.text) - 1) :
                     JoinedLen(Take(chunk.text, k)) >= MinChunkSize =>
                         JoinedLen(Take(chunk.text, k + 1)) <= MaxChunkSize

\* what a run that processed all of n sentences returns
CompletionReport(n) == [success |-> TRUE, message |-> "Analysis complete!", count |-> n]

\* C23: a call past the input checks is Running and ends Completed or
\* Stopped: Stopped when the stop flag is seen at a check, Completed when no
\* sentence is left; a Completed run returns the completion report with its
\* item count, and what a Stopped run returns is no completion report of
\* any completed run.
C23_OutcomeTellsStoppedFromCompleted ==
    /\ [][/\ (nRuns' # nRuns) => (Running' \/ run'.exit = "rejected")
          /\ (Running /\ run'.pc = "done") => (Completed' \/ Stopped')
          /\ (run.pc = "loop" /\ run' # run /\ nRuns' = nRuns) =>
                /\ Completed' <=> run.idx > Len(run.sentences)
                /\ Stopped' <=> (run.idx <= Len(run.sentences) /\ processing_stopped)]_vars
    /\ [](Completed => run.ret = CompletionReport(Len(run.sentences)))
    /\ [](Stopped => \A n \in 1..MaxSentences : run.ret # CompletionReport(n))

\* C24: every call of process_requirements that gets past the empty-input
\* check leaves the stop flag cleared, whatever it was before; the flag is
\* set only by a stop request, which leaves the run as it is; and a run
\* breaks only at a check that finds the flag set, so only a request made
\* after the run began stops it.
C24_StaleStopIgnored ==
    [][/\ (nRuns' # nRuns /\ PastInputCheck') => ~processing_stopped'
       /\ (~processing_stopped /\ processing_stopped') => (run' = run /\ nRuns' = nRuns)
       /\ (Running /\ Stopped') => (processing_stopped /\ run.pc = "loop")
       /\ (run.pc = "loop" /\ ~processing_stopped /\ run.idx <= Len(run.sentences)
              /\ run' # run /\ nRuns' = nRuns) => run'.pc = "predict"]_vars

\* a second run that was called with the stop flag still set and is past
\* its first check, about to process its first sentence
C24_Witness ==
    /\ nRuns = 2
    /\ run.stale
    /\ run.pc = "predict"
    /\ run.idx = 1
    /\ ~processing_stopped

====
